---- MODULE Spec2Model ----
(***************************************************************************)
(* Model of the YouTube data ingestion CLI:                                *)
(*   - reporting_client.py: list_reporting_jobs, create_reporting_job,     *)
(*     list_report_files, download_report_file, poll_and_download_reports  *)
(*   - main.py: the `reporting` command (job resolution, polling, saving). *)
(*   - main.py: the `analytics` command and load_video_ids.                *)
(*                                                                         *)
(* The remote platform is the environment: each remote call draws its      *)
(* result from a small set.  Every remote call and every sleep is logged   *)
(* in `trace`, in program order.                                           *)
(*                                                                         *)
(* Specifications (SpecPollerFair is SpecPoller with weak fairness):       *)
(*   SpecPoller  poll_and_download_reports called directly with arbitrary  *)
(*               arguments (job id, max_attempts, date window);            *)
(*   Spec        one invocation of the `reporting` command;                *)
(*   SpecAnalytics  one invocation of the `analytics` command             *)
(*               (load_video_ids and the per-video fetch loop).            *)
(***************************************************************************)
EXTENDS Integers, Sequences, FiniteSets, TLC

(***************************************************************************)
(* Bounds of the model.                                                    *)
(***************************************************************************)
\* largest max_attempts handed to the poller when it is called directly
MaxAttempts == 3
\* longest report-file listing the platform returns
MaxListing == 2
\* largest number of jobs the account holds before the invocation
MaxJobs == 2
\* largest --max-poll-time, in whole poll intervals
MaxPollMinutes == 2
\* longest list of video ids given by --video, and by the config file
MaxVideos == 2

(***************************************************************************)
(* Program constants and value encodings.                                  *)
(***************************************************************************)
\* main.py:202  poll_interval = 60
poll_interval == 60
\* HTTP status of a creation conflict, reporting_client.py:62
HTTP_CONFLICT == 409
\* the other failing statuses the create call is given here
OtherErrorStatuses == {403}
\* seconds in a day: strptime("%Y-%m-%d") yields midnight of the day
SecondsPerDay == 86400

\* Python None in a string-typed slot (job_id, output, used_job_id)
None == "None"
\* no exception has left the program
NoError == [type |-> "None", call |-> "None", status |-> 0]
\* googleapiclient HttpError / requests HTTPError raised by a remote call;
\* status 0 stands for a failing status the code does not look at
HttpError(call, status) == [type |-> "HttpError", call |-> call, status |-> status]
\* Python None in a datetime-typed slot
NoDate == <<>>
\* Python None in the `job` local of main.py:223
NoJob == [id |-> None, reportTypeId |-> None, name |-> None]

\* Python truthiness of an optional string: None and "" are falsy
Truthy(s) == s # None /\ s # ""

(***************************************************************************)
(* datetime values are <<seconds since epoch, microseconds>>.              *)
(***************************************************************************)
\* datetime.strptime(s, "%Y-%m-%d"): a date string is its day number
strptime(day) == <<day * SecondsPerDay, 0>>

\* datetime.utcfromtimestamp(end_time_ms / 1000)
utcfromtimestamp(end_time_ms) == <<end_time_ms \div 1000, (end_time_ms % 1000) * 1000>>

\* datetime comparison a <= b
dt_le_strict(a, b) == a[1] < b[1] \/ (a[1] = b[1] /\ a[2] < b[2])
dt_le(a, b) == a[1] < b[1] \/ (a[1] = b[1] /\ a[2] <= b[2])

\* int(report.get("endTimeMs", 0))
EndTimeMsOf(report) == IF "endTimeMs" \in DOMAIN report THEN report.endTimeMs ELSE 0

\* the date filter of reporting_client.py:123
PassesFilter(report, start_date, end_date) ==
    LET report_date == utcfromtimestamp(EndTimeMsOf(report))
    IN  /\ (IF start_date = NoDate THEN TRUE ELSE dt_le(start_date, report_date))
        /\ (IF end_date = NoDate THEN TRUE ELSE dt_le(report_date, end_date))

\* body returned by the download of a url (one distinct body per url)
ContentOf(url) == <<"csv", url>>

(***************************************************************************)
(* The environment: report files and jobs of the remote account.           *)
(***************************************************************************)
\* the day numbers used as --start-date and --end-date
StartDay == 1
EndDay == 2

\* Report files the platform may materialise for a job.  r1 carries no
\* endTimeMs, r2 ends exactly at midnight of StartDay, r3 exactly at
\* midnight of EndDay, r4 one millisecond after it.
ReportFiles ==
    { [id |-> "r1", downloadUrl |-> "u1"],
      [id |-> "r2", downloadUrl |-> "u2", endTimeMs |-> StartDay * SecondsPerDay * 1000],
      [id |-> "r3", downloadUrl |-> "u3", endTimeMs |-> EndDay * SecondsPerDay * 1000],
      [id |-> "r4", downloadUrl |-> "u4", endTimeMs |-> EndDay * SecondsPerDay * 1000 + 1] }

\* the smaller file universe used when the whole command is run
CommandFiles == { r \in ReportFiles : r.id \in {"r1", "r2"} }

\* sequences of pairwise distinct elements of S, of length at most n
DistinctSeqs(S, n) ==
    UNION { { s \in [1..k -> S] : \A i, j \in 1..k : i # j => s[i] # s[j] } : k \in 0..n }

\* jobs the account may already hold
JobPool ==
    { [id |-> "j1", reportTypeId |-> "A", name |-> "first A"],
      [id |-> "j2", reportTypeId |-> "B", name |-> "a B"],
      [id |-> "j3", reportTypeId |-> "A", name |-> "second A"] }

\* id the platform gives to a job created during the invocation
NewJobId == "jNew"

VARIABLES
    cli,            \* options of the reporting command
    caller,         \* "reporting", "analytics" or "direct" (poller called alone)
    video_ids,      \* main.py: local `video_ids` of the analytics command
    vid_pos,        \* position of `for vid in video_ids`
    pc,             \* position of the single thread of control
    jobs,           \* remote: the account's jobs, in listing order
    platformFiles,  \* remote: the files the job may have available
    job,            \* main.py: local `job`
    used_job_id,    \* main.py: local `used_job_id` / poller argument job_id
    create_args,    \* arguments of the pending create_reporting_job call
    max_attempts,   \* poller argument
    s_date,         \* poller argument start_date
    e_date,         \* poller argument end_date
    attempt,        \* number of loop iterations started
    reports,        \* listing of the current attempt
    idx,            \* position of `for report in reports`
    downloaded,     \* poller local `downloaded`
    result,         \* value returned by the poller (main.py `reports`)
    error,          \* the exception that left the program, or None
    written,        \* files written by the command
    echoed,         \* what the command echoed
    exit_code,      \* process exit status, -1 while running
    trace           \* remote calls and sleeps so far, in order

vars == << cli, caller, video_ids, vid_pos, pc, jobs, platformFiles, job, used_job_id, create_args,
           max_attempts, s_date, e_date, attempt, reports, idx, downloaded,
           result, error, written, echoed, exit_code, trace >>

pollerVars == << max_attempts, s_date, e_date, attempt, reports, idx, downloaded >>
cmdVars == << cli, caller, video_ids, vid_pos, jobs, platformFiles, job, create_args,
              written, echoed, exit_code >>

(***************************************************************************)
(* Helpers translated from the code.                                       *)
(***************************************************************************)
\* range(max_attempts) has a further element after `a` iterations
MoreAttempts_atLeastOnce(a, m) == a <= m
MoreAttempts(a, m) == a < m

\* `if downloaded:` of reporting_client.py:126
ShouldBreak_onlyIfSeveral(d) == Len(d) > 1
ShouldBreak_never(d) == FALSE
ShouldBreak(d) == d # <<>>

\* downloaded.append(content)
Collect_overwrite(d, content) == <<content>>
Collect(d, content) == Append(d, content)

\* first job of the listing whose reportTypeId is the requested one, or
\* NoJob (the for loops of main.py:224-227 and reporting_client.py:63-65)
FirstMatching_last(listing, report_type_id) ==
    LET hits == { i \in 1..Len(listing) : listing[i].reportTypeId = report_type_id }
    IN  IF hits = {} THEN NoJob
        ELSE listing[CHOOSE i \in hits : \A k \in hits : k <= i]
FirstMatching(listing, report_type_id) ==
    LET hits == { i \in 1..Len(listing) : listing[i].reportTypeId = report_type_id }
    IN  IF hits = {} THEN NoJob
        ELSE listing[CHOOSE i \in hits : \A k \in hits : i <= k]

\* the exception leaves the program: nothing in the call chain catches it
Raise(err) ==
    /\ pc' = "raised"
    /\ error' = err
    /\ exit_code' = IF caller = "direct" THEN exit_code ELSE 1

(***************************************************************************)
(* poll_and_download_reports, reporting_client.py:100-130                  *)
(***************************************************************************)
\* lines 114-116: service, creds, downloaded = []
PollStart ==
    /\ pc = "poll_call"
    /\ downloaded' = <<>>
    /\ attempt' = 0
    /\ reports' = <<>>
    /\ idx' = 1
    /\ pc' = "loop"
    /\ UNCHANGED << cmdVars, used_job_id, max_attempts, s_date, e_date,
                    result, error, trace >>

\* line 119: one more iteration, list_report_files returns a listing
ListReportFiles ==
    /\ pc = "loop"
    /\ MoreAttempts(attempt, max_attempts)
    /\ \E listing \in DistinctSeqs(platformFiles, MaxListing) :
          /\ reports' = listing
          /\ trace' = Append(trace, [op |-> "reports.list", ok |-> TRUE,
                                     jobId |-> used_job_id, listing |-> listing])
    /\ attempt' = attempt + 1
    /\ idx' = 1
    /\ pc' = "for_report"
    /\ UNCHANGED << cmdVars, used_job_id, max_attempts, s_date, e_date,
                    downloaded, result, error >>

\* line 119: the listing call raises HttpError
ListReportFilesFails ==
    /\ pc = "loop"
    /\ MoreAttempts(attempt, max_attempts)
    /\ attempt' = attempt + 1
    /\ trace' = Append(trace, [op |-> "reports.list", ok |-> FALSE,
                               jobId |-> used_job_id])
    /\ Raise(HttpError("reports.list", 0))
    /\ UNCHANGED << cli, caller, video_ids, vid_pos, jobs, platformFiles, job, create_args,
                    written, echoed, used_job_id, max_attempts, s_date, e_date,
                    reports, idx, downloaded, result >>

\* lines 121-123: the report does not pass the date filter
SkipReport ==
    /\ pc = "for_report"
    /\ idx <= Len(reports)
    /\ ~PassesFilter(reports[idx], s_date, e_date)
    /\ idx' = idx + 1
    /\ UNCHANGED << cmdVars, pc, used_job_id, max_attempts, s_date, e_date,
                    attempt, reports, downloaded, result, error, trace >>

\* lines 121-125: the report passes and its download succeeds
DownloadReport ==
    /\ pc = "for_report"
    /\ idx <= Len(reports)
    /\ PassesFilter(reports[idx], s_date, e_date)
    /\ downloaded' = Collect(downloaded, ContentOf(reports[idx].downloadUrl))
    /\ trace' = Append(trace, [op |-> "download", ok |-> TRUE,
                               file |-> reports[idx].id,
                               url |-> reports[idx].downloadUrl])
    /\ idx' = idx + 1
    /\ UNCHANGED << cmdVars, pc, used_job_id, max_attempts, s_date, e_date,
                    attempt, reports, result, error >>

\* lines 124, 96: raise_for_status raises, nothing catches it
DownloadFails_isolated ==
    /\ pc = "for_report"
    /\ idx <= Len(reports)
    /\ PassesFilter(reports[idx], s_date, e_date)
    /\ trace' = Append(trace, [op |-> "download", ok |-> FALSE,
                               file |-> reports[idx].id,
                               url |-> reports[idx].downloadUrl])
    /\ idx' = idx + 1
    /\ UNCHANGED << cmdVars, pc, used_job_id, max_attempts, s_date, e_date,
                    attempt, reports, downloaded, result, error >>
DownloadFails ==
    /\ pc = "for_report"
    /\ idx <= Len(reports)
    /\ PassesFilter(reports[idx], s_date, e_date)
    /\ trace' = Append(trace, [op |-> "download", ok |-> FALSE,
                               file |-> reports[idx].id,
                               url |-> reports[idx].downloadUrl])
    /\ Raise(HttpError("download", 0))
    /\ UNCHANGED << cli, caller, video_ids, vid_pos, jobs, platformFiles, job, create_args,
                    written, echoed, used_job_id, max_attempts, s_date, e_date,
                    attempt, reports, idx, downloaded, result >>

\* lines 126-127, 130: something was downloaded: break and return
BreakAndReturn ==
    /\ pc = "for_report"
    /\ idx > Len(reports)
    /\ ShouldBreak(downloaded)
    /\ result' = downloaded
    /\ pc' = "returned"
    /\ UNCHANGED << cmdVars, pollerVars, used_job_id, error, trace >>

\* lines 126-129: nothing downloaded: log and time.sleep(poll_interval)
NoReportsYet ==
    /\ pc = "for_report"
    /\ idx > Len(reports)
    /\ ~ShouldBreak(downloaded)
    /\ trace' = Append(trace, [op |-> "sleep", ok |-> TRUE, seconds |-> poll_interval])
    /\ pc' = "loop"
    /\ UNCHANGED << cmdVars, pollerVars, used_job_id, result, error >>

\* lines 118, 130: range(max_attempts) is exhausted: return downloaded
LoopExhausted ==
    /\ pc = "loop"
    /\ ~MoreAttempts(attempt, max_attempts)
    /\ result' = downloaded
    /\ pc' = "returned"
    /\ UNCHANGED << cmdVars, pollerVars, used_job_id, error, trace >>

NextPoller ==
    \/ PollStart
    \/ ListReportFiles
    \/ ListReportFilesFails
    \/ SkipReport
    \/ DownloadReport
    \/ DownloadFails
    \/ BreakAndReturn
    \/ NoReportsYet
    \/ LoopExhausted

\* the poller is called directly, with arbitrary arguments
InitPoller ==
    /\ caller = "direct"
    /\ video_ids = <<>>
    /\ vid_pos = 1
    /\ pc = "poll_call"
    /\ cli = [list_only |-> FALSE]
    /\ jobs = <<>>
    /\ platformFiles = ReportFiles
    /\ job = NoJob
    /\ create_args = NoJob
    /\ used_job_id = "j1"
    /\ max_attempts \in -1..MaxAttempts
    /\ s_date \in {NoDate, strptime(StartDay)}
    /\ e_date \in {NoDate, strptime(EndDay)}
    /\ attempt = 0
    /\ reports = <<>>
    /\ idx = 1
    /\ downloaded = <<>>
    /\ result = <<>>
    /\ error = NoError
    /\ written = <<>>
    /\ echoed = <<>>
    /\ exit_code = -1
    /\ trace = <<>>

SpecPoller == InitPoller /\ [][NextPoller]_vars

\* The poller is one sequential thread: whenever it has a next step it
\* takes it (every remote call and every sleep comes back).
SpecPollerFair == InitPoller /\ [][NextPoller]_vars /\ WF_vars(NextPoller)

(***************************************************************************)
(* create_reporting_job, reporting_client.py:47-66                         *)
(***************************************************************************)
\* line 60: the remote create call succeeds and adds a job to the account
CreateSucceeds ==
    /\ pc = "create"
    /\ LET created == [id |-> NewJobId,
                       reportTypeId |-> create_args.reportTypeId,
                       name |-> create_args.name]
       IN  /\ jobs' = Append(jobs, created)
           /\ job' = created
           /\ used_job_id' = created.id
    /\ trace' = Append(trace, [op |-> "jobs.create", ok |-> TRUE, status |-> 200,
                               reportTypeId |-> create_args.reportTypeId])
    /\ pc' = "poll_call"
    /\ UNCHANGED << cli, caller, video_ids, vid_pos, platformFiles, create_args, written, echoed,
                    exit_code, pollerVars, result, error >>

\* lines 60-62: the remote create call is rejected with 409
CreateConflict ==
    /\ pc = "create"
    /\ trace' = Append(trace, [op |-> "jobs.create", ok |-> FALSE,
                               status |-> HTTP_CONFLICT,
                               reportTypeId |-> create_args.reportTypeId])
    /\ pc' = "conflict_scan"
    /\ UNCHANGED << cmdVars, pollerVars, used_job_id, result, error >>

\* lines 60-62, 66: the remote create call fails with another status
CreateFails_recovers ==
    /\ pc = "create"
    /\ \E status \in OtherErrorStatuses :
          trace' = Append(trace, [op |-> "jobs.create", ok |-> FALSE,
                                  status |-> status,
                                  reportTypeId |-> create_args.reportTypeId])
    /\ pc' = "conflict_scan"
    /\ UNCHANGED << cmdVars, pollerVars, used_job_id, result, error >>
CreateFails ==
    /\ pc = "create"
    /\ \E status \in OtherErrorStatuses :
          /\ trace' = Append(trace, [op |-> "jobs.create", ok |-> FALSE,
                                     status |-> status,
                                     reportTypeId |-> create_args.reportTypeId])
          /\ Raise(HttpError("jobs.create", status))
    /\ UNCHANGED << cli, caller, video_ids, vid_pos, jobs, platformFiles, job, create_args,
                    written, echoed, pollerVars, used_job_id, result >>

\* lines 63-66: scan list_reporting_jobs for the report type, else raise e
ConflictScan_anyJob ==
    /\ pc = "conflict_scan"
    /\ trace' = Append(trace, [op |-> "jobs.list", ok |-> TRUE, listing |-> jobs])
    /\ LET found == IF jobs = <<>> THEN NoJob ELSE jobs[1]
       IN  IF found # NoJob
           THEN /\ job' = found
                /\ used_job_id' = found.id
                /\ pc' = "poll_call"
                /\ UNCHANGED << error, exit_code >>
           ELSE /\ Raise(HttpError("jobs.create", HTTP_CONFLICT))
                /\ UNCHANGED << job, used_job_id >>
    /\ UNCHANGED << cli, caller, video_ids, vid_pos, jobs, platformFiles, create_args, written,
                    echoed, pollerVars, result >>
ConflictScan ==
    /\ pc = "conflict_scan"
    /\ trace' = Append(trace, [op |-> "jobs.list", ok |-> TRUE, listing |-> jobs])
    /\ LET found == FirstMatching(jobs, create_args.reportTypeId)
       IN  IF found # NoJob
           THEN /\ job' = found
                /\ used_job_id' = found.id
                /\ pc' = "poll_call"
                /\ UNCHANGED << error, exit_code >>
           ELSE /\ Raise(HttpError("jobs.create", HTTP_CONFLICT))
                /\ UNCHANGED << job, used_job_id >>
    /\ UNCHANGED << cli, caller, video_ids, vid_pos, jobs, platformFiles, create_args, written,
                    echoed, pollerVars, result >>

(***************************************************************************)
(* The reporting command, main.py:166-259                                  *)
(***************************************************************************)
\* lines 202-207: max_attempts and the parsed date window
Setup_roundsUp ==
    /\ max_attempts' = (cli.max_poll_time + poll_interval - 1) \div poll_interval
    /\ s_date' = IF cli.start_date # NoDate THEN strptime(cli.start_date[1]) ELSE NoDate
    /\ e_date' = IF cli.end_date # NoDate THEN strptime(cli.end_date[1]) ELSE NoDate
Setup ==
    /\ max_attempts' = cli.max_poll_time \div poll_interval
    /\ s_date' = IF cli.start_date # NoDate THEN strptime(cli.start_date[1]) ELSE NoDate
    /\ e_date' = IF cli.end_date # NoDate THEN strptime(cli.end_date[1]) ELSE NoDate

\* which branch of main.py:212-231 resolves the job
ResolveBranch_lookupFirst(c) ==
    IF Truthy(c.job_id) THEN "provided" ELSE "search"
ResolveBranch_forceFirst(c) ==
    IF c.force_new THEN "force_new"
    ELSE IF Truthy(c.job_id) THEN "provided" ELSE "search"
ResolveBranch(c) ==
    IF Truthy(c.job_id) THEN "provided"
    ELSE IF c.force_new THEN "force_new" ELSE "search"

\* lines 192-200: --list-only prints report types and jobs
ListOnly_fallsThrough ==
    /\ pc = "reporting"
    /\ cli.list_only
    /\ trace' = trace \o << [op |-> "reportTypes.list", ok |-> TRUE],
                            [op |-> "jobs.list", ok |-> TRUE, listing |-> jobs] >>
    /\ echoed' = << "Available Report Types:", "Existing Reporting Jobs:" >>
                    \o [i \in 1..Len(jobs) |-> jobs[i].id]
    /\ Setup
    /\ used_job_id' = cli.job_id
    /\ pc' = "poll_call"
    /\ UNCHANGED << cli, caller, video_ids, vid_pos, jobs, platformFiles, job, create_args, written,
                    exit_code, attempt, reports, idx, downloaded, result, error >>
ListOnly ==
    /\ pc = "reporting"
    /\ cli.list_only
    /\ trace' = trace \o << [op |-> "reportTypes.list", ok |-> TRUE],
                            [op |-> "jobs.list", ok |-> TRUE, listing |-> jobs] >>
    /\ echoed' = << "Available Report Types:", "Existing Reporting Jobs:" >>
                    \o [i \in 1..Len(jobs) |-> jobs[i].id]
    /\ pc' = "done"
    /\ exit_code' = 0
    /\ UNCHANGED << cli, caller, video_ids, vid_pos, jobs, platformFiles, job, create_args, written,
                    pollerVars, used_job_id, result, error >>

\* lines 212-214: an explicit job id is used as given
UseProvidedJobId ==
    /\ pc = "reporting"
    /\ ~cli.list_only
    /\ ResolveBranch(cli) = "provided"
    /\ Setup
    /\ used_job_id' = cli.job_id
    /\ pc' = "poll_call"
    /\ UNCHANGED << cmdVars, attempt, reports, idx, downloaded, result, error, trace >>

\* lines 216-218: --force-new calls create_reporting_job
ForceNew ==
    /\ pc = "reporting"
    /\ ~cli.list_only
    /\ ResolveBranch(cli) = "force_new"
    /\ Setup
    /\ create_args' = [id |-> None, reportTypeId |-> cli.report_type_id,
                       name |-> "Forced New Report"]
    /\ pc' = "create"
    /\ UNCHANGED << cli, caller, video_ids, vid_pos, jobs, platformFiles, job, written, echoed,
                    exit_code, used_job_id, attempt, reports, idx, downloaded,
                    result, error, trace >>

\* lines 221-231: search list_reporting_jobs, create only if nothing matches
SearchExisting_alwaysCreates ==
    /\ pc = "reporting"
    /\ ~cli.list_only
    /\ ResolveBranch(cli) = "search"
    /\ Setup
    /\ trace' = Append(trace, [op |-> "jobs.list", ok |-> TRUE, listing |-> jobs])
    /\ job' = FirstMatching(jobs, cli.report_type_id)
    /\ create_args' = [id |-> None, reportTypeId |-> cli.report_type_id,
                       name |-> "Report <report_type_id>"]
    /\ pc' = "create"
    /\ UNCHANGED << cli, caller, video_ids, vid_pos, jobs, platformFiles, written, echoed, exit_code,
                    used_job_id, attempt, reports, idx, downloaded, result, error >>
SearchExisting ==
    /\ pc = "reporting"
    /\ ~cli.list_only
    /\ ResolveBranch(cli) = "search"
    /\ Setup
    /\ trace' = Append(trace, [op |-> "jobs.list", ok |-> TRUE, listing |-> jobs])
    /\ LET found == FirstMatching(jobs, cli.report_type_id)
       IN  /\ job' = found
           /\ IF found # NoJob
              THEN /\ used_job_id' = found.id
                   /\ pc' = "poll_call"
                   /\ UNCHANGED create_args
              ELSE /\ create_args' = [id |-> None,
                                      reportTypeId |-> cli.report_type_id,
                                      name |-> "Report <report_type_id>"]
                   /\ pc' = "create"
                   /\ UNCHANGED used_job_id
    /\ UNCHANGED << cli, caller, video_ids, vid_pos, jobs, platformFiles, written, echoed, exit_code,
                    attempt, reports, idx, downloaded, result, error >>

\* lines 199, 222, 63: list_reporting_jobs raises HttpError (on the search
\* path lines 202-207 have run before the call)
ListJobsFails ==
    /\ \/ pc = "conflict_scan"
       \/ pc = "reporting" /\ (cli.list_only \/ ResolveBranch(cli) = "search")
    /\ IF pc = "reporting" /\ ~cli.list_only
       THEN Setup
       ELSE UNCHANGED << max_attempts, s_date, e_date >>
    /\ trace' = Append(trace, [op |-> "jobs.list", ok |-> FALSE])
    /\ Raise(HttpError("jobs.list", 0))
    /\ UNCHANGED << cli, caller, video_ids, vid_pos, jobs, platformFiles, job, create_args, written,
                    echoed, attempt, reports, idx, downloaded, used_job_id, result >>

\* lines 238-240: nothing was downloaded
NoReportsDownloaded_asError ==
    /\ pc = "returned"
    /\ caller = "reporting"
    /\ result = <<>>
    /\ echoed' = Append(echoed, "No reports were downloaded.")
    /\ exit_code' = 1
    /\ pc' = "exited"
    /\ UNCHANGED << cli, caller, video_ids, vid_pos, jobs, platformFiles, job, create_args, written,
                    pollerVars, used_job_id, result, error, trace >>
NoReportsDownloaded ==
    /\ pc = "returned"
    /\ caller = "reporting"
    /\ result = <<>>
    /\ echoed' = Append(echoed, "No reports were downloaded.")
    /\ exit_code' = 0
    /\ pc' = "exited"
    /\ UNCHANGED << cli, caller, video_ids, vid_pos, jobs, platformFiles, job, create_args, written,
                    pollerVars, used_job_id, result, error, trace >>

\* lines 243-259: save the reports, or echo them when no --output is given
SaveReports ==
    /\ pc = "returned"
    /\ caller = "reporting"
    /\ result # <<>>
    /\ IF Truthy(cli.output)
       THEN /\ written' =
                  IF Len(result) > 1
                  THEN [i \in 1..Len(result) |->
                           [name |-> <<cli.output, i>>, content |-> result[i]]]
                  ELSE << [name |-> <<cli.output, 0>>, content |-> result[1]] >>
            /\ echoed' = echoed \o [i \in 1..Len(result) |-> "Saved"]
       ELSE /\ echoed' = echoed \o [i \in 1..Len(result) |-> "Report"]
            /\ UNCHANGED written
    /\ exit_code' = 0
    /\ pc' = "done"
    /\ UNCHANGED << cli, caller, video_ids, vid_pos, jobs, platformFiles, job, create_args,
                    pollerVars, used_job_id, result, error, trace >>

\* values of --max-poll-time
PollTimes == {-1, 59, 119} \cup { poll_interval * m : m \in 0..MaxPollMinutes }

\* one invocation of the reporting command
Init ==
    /\ caller = "reporting"
    /\ video_ids = <<>>
    /\ vid_pos = 1
    /\ pc = "reporting"
    /\ cli \in [ job_id : {None, "jX"},
                 force_new : BOOLEAN,
                 report_type_id : {"A", "B"},
                 output : {None, "out"},
                 max_poll_time : PollTimes,
                 start_date : {NoDate, <<StartDay>>},
                 end_date : {NoDate, <<EndDay>>},
                 list_only : BOOLEAN ]
    /\ jobs \in DistinctSeqs(JobPool, MaxJobs)
    /\ platformFiles = CommandFiles
    /\ job = NoJob
    /\ create_args = NoJob
    /\ used_job_id = None
    /\ max_attempts = 0
    /\ s_date = NoDate
    /\ e_date = NoDate
    /\ attempt = 0
    /\ reports = <<>>
    /\ idx = 1
    /\ downloaded = <<>>
    /\ result = <<>>
    /\ error = NoError
    /\ written = <<>>
    /\ echoed = <<>>
    /\ exit_code = -1
    /\ trace = <<>>

Next ==
    \/ ListOnly
    \/ UseProvidedJobId
    \/ ForceNew
    \/ SearchExisting
    \/ ListJobsFails
    \/ CreateSucceeds
    \/ CreateConflict
    \/ CreateFails
    \/ ConflictScan
    \/ NextPoller
    \/ NoReportsDownloaded
    \/ SaveReports

Spec == Init /\ [][Next]_vars

(***************************************************************************)
(* The analytics command, main.py:50-73 and 103-163                        *)
(***************************************************************************)
\* video ids a user may name
VideoPool == {"v1", "v2"}
\* lists of video ids (repetitions allowed), of length at most MaxVideos
IdSeqs == UNION { [1..k -> VideoPool] : k \in 0..MaxVideos }

\* --config is not given
NoConfig == [type |-> "absent"]
\* parsed JSON documents (what json.load returns): an array is a Python
\* list, an object a dict, anything else a scalar
JsonArray(items) == [type |-> "array", items |-> items]
JsonObject(members) == [type |-> "object", members |-> members]
ConfigDocs ==
    { JsonArray(ids) : ids \in IdSeqs }
    \cup { JsonObject([video_ids |-> ids]) : ids \in IdSeqs }
    \cup { JsonObject([video_ids |-> ids, title |-> <<"x">>]) : ids \in IdSeqs }
    \cup { JsonObject([invalid |-> ids]) : ids \in IdSeqs }
    \cup { JsonObject(<<>>), [type |-> "string"], [type |-> "number"], [type |-> "null"] }

\* the exception of main.py:70
ValueError == [type |-> "ValueError", call |-> "load_video_ids", status |-> 0]

\* load_video_ids, main.py:61-73: the list, the inner list, or ValueError
\* (logged and re-raised by the except clause)
load_video_ids_listOnly(data) ==
    IF data.type = "array" THEN [ok |-> TRUE, value |-> data.items]
    ELSE [ok |-> FALSE, value |-> <<>>]
load_video_ids_lenient(data) ==
    IF data.type = "array" THEN [ok |-> TRUE, value |-> data.items]
    ELSE IF data.type = "object"
         THEN IF "video_ids" \in DOMAIN data.members
              THEN [ok |-> TRUE, value |-> data.members.video_ids]
              ELSE [ok |-> TRUE, value |-> <<>>]
         ELSE [ok |-> TRUE, value |-> <<>>]
load_video_ids(data) ==
    IF data.type = "array" THEN [ok |-> TRUE, value |-> data.items]
    ELSE IF data.type = "object"
         THEN IF "video_ids" \in DOMAIN data.members
              THEN [ok |-> TRUE, value |-> data.members.video_ids]
              ELSE [ok |-> FALSE, value |-> <<>>]
         ELSE [ok |-> FALSE, value |-> <<>>]

\* lines 132-139: ids of the config file first, then those of --video
CollectedIds(c) ==
    (IF c.config # NoConfig THEN load_video_ids(c.config).value ELSE <<>>) \o c.video

\* lines 151-154: the response rendered as csv or json
Render(ext, vid) == <<ext, "stats", vid>>

\* lines 133-134, 70-73: the config file has an invalid shape
ConfigInvalid ==
    /\ pc = "analytics"
    /\ cli.config # NoConfig
    /\ ~load_video_ids(cli.config).ok
    /\ Raise(ValueError)
    /\ UNCHANGED << cli, caller, video_ids, vid_pos, jobs, platformFiles, job,
                    create_args, written, echoed, pollerVars, used_job_id,
                    result, trace >>

\* lines 132-142: no video id from either source: exit with code 1
NoVideoIds ==
    /\ pc = "analytics"
    /\ cli.config # NoConfig => load_video_ids(cli.config).ok
    /\ CollectedIds(cli) = <<>>
    /\ video_ids' = <<>>
    /\ exit_code' = 1
    /\ pc' = "exited"
    /\ UNCHANGED << cli, caller, vid_pos, jobs, platformFiles, job, create_args,
                    written, echoed, pollerVars, used_job_id, result, error, trace >>

\* lines 132-145: the ids are collected and the loop starts
CollectVideoIds ==
    /\ pc = "analytics"
    /\ cli.config # NoConfig => load_video_ids(cli.config).ok
    /\ CollectedIds(cli) # <<>>
    /\ video_ids' = CollectedIds(cli)
    /\ vid_pos' = 1
    /\ pc' = "fetch_loop"
    /\ UNCHANGED << cli, caller, jobs, platformFiles, job, create_args, written,
                    echoed, exit_code, pollerVars, used_job_id, result, error, trace >>

\* lines 147-161: the fetch succeeds; the result is saved or echoed
FetchVideo ==
    /\ pc = "fetch_loop"
    /\ vid_pos <= Len(video_ids)
    /\ LET vid == video_ids[vid_pos]
       IN  /\ trace' = Append(trace, [op |-> "reports.query", ok |-> TRUE, video |-> vid])
           /\ IF Truthy(cli.output)
              THEN /\ written' = Append(written,
                                        [name |-> <<cli.output, vid, cli.format>>,
                                         content |-> Render(cli.format, vid)])
                   /\ echoed' = Append(echoed, [video |-> vid, saved |-> TRUE])
              ELSE /\ echoed' = Append(echoed, [video |-> vid, saved |-> FALSE])
                   /\ UNCHANGED written
    /\ vid_pos' = vid_pos + 1
    /\ UNCHANGED << cli, caller, video_ids, jobs, platformFiles, job, create_args,
                    exit_code, pollerVars, used_job_id, result, error, pc >>

\* lines 149-150, 162-163: the fetch raises; the error is logged, the loop
\* goes on with the next video
FetchFails_aborts ==
    /\ pc = "fetch_loop"
    /\ vid_pos <= Len(video_ids)
    /\ trace' = Append(trace, [op |-> "reports.query", ok |-> FALSE,
                               video |-> video_ids[vid_pos]])
    /\ Raise(HttpError("reports.query", 0))
    /\ UNCHANGED << cli, caller, video_ids, vid_pos, jobs, platformFiles, job,
                    create_args, written, echoed, pollerVars, used_job_id, result >>
FetchFails ==
    /\ pc = "fetch_loop"
    /\ vid_pos <= Len(video_ids)
    /\ trace' = trace \o << [op |-> "reports.query", ok |-> FALSE,
                             video |-> video_ids[vid_pos]],
                            [op |-> "logger.error", ok |-> TRUE,
                             video |-> video_ids[vid_pos]] >>
    /\ vid_pos' = vid_pos + 1
    /\ UNCHANGED << cli, caller, video_ids, jobs, platformFiles, job, create_args,
                    written, echoed, exit_code, pollerVars, used_job_id, result,
                    error, pc >>

\* line 147: the list is exhausted, the command ends normally
AnalyticsDone ==
    /\ pc = "fetch_loop"
    /\ vid_pos > Len(video_ids)
    /\ exit_code' = 0
    /\ pc' = "done"
    /\ UNCHANGED << cli, caller, video_ids, vid_pos, jobs, platformFiles, job,
                    create_args, written, echoed, pollerVars, used_job_id,
                    result, error, trace >>

\* one invocation of the analytics command
InitAnalytics ==
    /\ caller = "analytics"
    /\ pc = "analytics"
    /\ cli \in [ video : IdSeqs,
                 config : {NoConfig} \cup ConfigDocs,
                 format : {"json", "csv"},
                 output : {None, "out"} ]
    /\ video_ids = <<>>
    /\ vid_pos = 1
    /\ jobs = <<>>
    /\ platformFiles = {}
    /\ job = NoJob
    /\ create_args = NoJob
    /\ used_job_id = None
    /\ max_attempts = 0
    /\ s_date = NoDate
    /\ e_date = NoDate
    /\ attempt = 0
    /\ reports = <<>>
    /\ idx = 1
    /\ downloaded = <<>>
    /\ result = <<>>
    /\ error = NoError
    /\ written = <<>>
    /\ echoed = <<>>
    /\ exit_code = -1
    /\ trace = <<>>

NextAnalytics ==
    \/ ConfigInvalid
    \/ NoVideoIds
    \/ CollectVideoIds
    \/ FetchVideo
    \/ FetchFails
    \/ AnalyticsDone

SpecAnalytics == InitAnalytics /\ [][NextAnalytics]_vars

(***************************************************************************)
(* Vocabulary of the properties: the date window stated on milliseconds,   *)
(* and views of the trace.                                                 *)
(***************************************************************************)
\* a filter datetime as epoch milliseconds
DateMs(d) == d[1] * 1000 + d[2] \div 1000

\* the file's endTimeMs lies in the inclusive window [s_date, e_date]
InWindow(f) ==
    /\ (s_date # NoDate => EndTimeMsOf(f) >= DateMs(s_date))
    /\ (e_date # NoDate => EndTimeMsOf(f) <= DateMs(e_date))

\* the files of a listing that lie in the window, in listing order
IsInWindow(f) == InWindow(f)
Passing(listing) == SelectSeq(listing, IsInWindow)

IsListCall(e) == e.op = "reports.list"
IsGoodListing(e) == e.op = "reports.list" /\ e.ok
IsDownload(e) == e.op = "download"
IsSleep(e) == e.op = "sleep"
IsCreate(e) == e.op = "jobs.create"
IsListJobs(e) == e.op = "jobs.list"

ListCalls == SelectSeq(trace, IsListCall)
Listings == SelectSeq(trace, IsGoodListing)
Downloads == SelectSeq(trace, IsDownload)
Sleeps == SelectSeq(trace, IsSleep)
CreateCalls == SelectSeq(trace, IsCreate)
ListJobsCalls == SelectSeq(trace, IsListJobs)

\* the poller has finished, one way or the other
PollerEnded == pc \in {"returned", "raised", "exited", "done"}
\* the poller has returned a value to its caller
PollerReturned == pc \in {"returned", "exited", "done"}

\* positions of the trace holding a listing with a file in the window
YieldingAt == { i \in 1..Len(trace) :
                  IsGoodListing(trace[i]) /\ Passing(trace[i].listing) # <<>> }

\* C1: once an attempt's listing holds a file passing the date filter, the
\* poller ends with that attempt: every later event of the trace is a
\* download of a file of that listing (no listing call, no sleep), and the
\* control never goes back to the head of the loop.
C1_StopsAtFirstMatch ==
    \A i \in YieldingAt :
        /\ \A j \in (i + 1)..Len(trace) :
              /\ IsDownload(trace[j])
              /\ \E k \in 1..Len(trace[i].listing) :
                    trace[i].listing[k].id = trace[j].file
        /\ pc \in {"for_report", "returned", "raised"}
        /\ pc = "for_report" => reports = trace[i].listing

\* C1 witness: the poller returned on a match with attempts left over
C1_Witness ==
    /\ pc = "returned"
    /\ result # <<>>
    /\ attempt >= 2
    /\ attempt < max_attempts

\* C2: when attempts 1..k-1 listed no passing file and attempt k lists
\* m >= 1 passing files, the poller makes exactly k listing calls and k-1
\* waits, and what it returns are exactly the m reports; and it never gives
\* up with an empty result before max_attempts listings were made.
C2_FirstMatchCounts ==
    /\ PollerEnded =>
          \A k \in 1..Len(Listings) :
              Passing(Listings[k].listing) # <<>> =>
                  /\ \A i \in 1..(k - 1) : Passing(Listings[i].listing) = <<>>
                  /\ Len(ListCalls) = k
                  /\ Len(Sleeps) = k - 1
                  /\ PollerReturned =>
                        Len(result) = Len(Passing(Listings[k].listing))
    /\ (PollerReturned /\ result = <<>> /\ max_attempts >= 0) =>
          Len(ListCalls) = max_attempts

\* C2 witness: the case of the specification, k = 2 and m = 1
C2_Witness ==
    /\ pc = "returned"
    /\ Len(Listings) = 2
    /\ Passing(Listings[1].listing) = <<>>
    /\ Len(Listings[1].listing) > 0
    /\ Len(Passing(Listings[2].listing)) = 1
    /\ Len(result) = 1

\* C3 (as claimed): a session whose attempts all match nothing makes
\* max_attempts listing calls and max_attempts - 1 waits, the last event
\* before the empty result being a listing, not a wait.
C3_WaitsOnlyBetweenAttempts ==
    (PollerReturned /\ result = <<>> /\ max_attempts >= 1) =>
        /\ Len(ListCalls) = max_attempts
        /\ Len(Sleeps) = max_attempts - 1
        /\ ~IsSleep(trace[Len(trace)])

\* C4: with max_attempts = 0 the poller makes no remote call and no wait,
\* cannot fail, and returns the empty sequence.
C4_ZeroAttempts ==
    max_attempts = 0 =>
        /\ trace = <<>>
        /\ pc \in {"poll_call", "loop", "returned"}
        /\ pc = "returned" => result = <<>>

\* C4 witness: the poller returned from a call with max_attempts = 0
C4_Witness ==
    /\ pc = "returned"
    /\ max_attempts = 0
    /\ attempt = 0

\* the listing of the attempt that ended polling (empty if none was made)
LastListing == IF Listings = <<>> THEN <<>> ELSE Listings[Len(Listings)].listing

\* the report file of a given id
FileById(id) == CHOOSE f \in ReportFiles : f.id = id

\* C5: the returned contents are exactly the contents of the files of the
\* last listing whose endTimeMs lies in the inclusive window, in listing
\* order (all of them when both filters are absent), and every download
\* ever issued is of a file in the window.
C5_DateWindow ==
    /\ PollerReturned =>
          /\ result = [i \in 1..Len(Passing(LastListing)) |->
                          ContentOf(Passing(LastListing)[i].downloadUrl)]
          /\ (s_date = NoDate /\ e_date = NoDate) => Len(result) = Len(LastListing)
    /\ \A j \in 1..Len(Downloads) : InWindow(FileById(Downloads[j].file))

\* C5 witness: both filters set, the last listing holds a file exactly on a
\* bound of the window (collected) and one outside it (left out)
C5_Witness ==
    /\ pc = "returned"
    /\ s_date # NoDate
    /\ e_date # NoDate
    /\ Len(LastListing) = 2
    /\ Len(result) = 1
    /\ \E i \in 1..2 : EndTimeMsOf(LastListing[i]) \in {DateMs(s_date), DateMs(e_date)}

\* C10: no report file is downloaded twice in a session
C10_NoDoubleDownload ==
    \A i, j \in 1..Len(Downloads) :
        i # j => Downloads[i].file # Downloads[j].file

\* C10 witness: a file persisted from one listing to the next, another one
\* appeared, and two files were downloaded
C10_Witness ==
    /\ pc = "returned"
    /\ Len(Listings) >= 2
    /\ \E a \in 1..Len(Listings) : \E b \in (a + 1)..Len(Listings) :
          \E x \in 1..Len(Listings[a].listing) : \E y \in 1..Len(Listings[b].listing) :
              Listings[a].listing[x].id = Listings[b].listing[y].id
    /\ Len(Downloads) = 2

(***************************************************************************)
(* Properties of the reporting command and of job resolution.              *)
(***************************************************************************)
\* the job of a listing that is the first of the given report type
IsFirstOfType(listing, k, report_type_id) ==
    /\ listing[k].reportTypeId = report_type_id
    /\ \A i \in 1..(k - 1) : listing[i].reportTypeId # report_type_id

HasType(listing, report_type_id) ==
    \E k \in 1..Len(listing) : listing[k].reportTypeId = report_type_id

\* the command was run without --list-only and without --job-id
ResolvesJob == ~cli.list_only /\ ~Truthy(cli.job_id)

\* C6: a failed download is the last thing the invocation does: the
\* exception leaves the program, the poller hands no result to the command
\* (not even the files downloaded before), no listing, download or wait
\* follows, and no output file is written.
C6_DownloadFailureAborts ==
    \A i \in 1..Len(trace) :
        (IsDownload(trace[i]) /\ ~trace[i].ok) =>
            /\ i = Len(trace)
            /\ pc = "raised"
            /\ error = HttpError("download", 0)
            /\ result = <<>>
            /\ written = <<>>
            /\ echoed = <<>>
            /\ exit_code # 0

\* C6 witness: the second matched file of an attempt failed to download,
\* the first one had been downloaded, and --output was given
C6_Witness ==
    /\ pc = "raised"
    /\ caller = "reporting"
    /\ Truthy(cli.output)
    /\ downloaded # <<>>
    /\ ~trace[Len(trace)].ok
    /\ IsDownload(trace[Len(trace)])

\* C7: without --force-new and without --job-id, when the job listing holds
\* a job of the requested report type the first such job is the one given
\* to the poller and no create call is ever made; a create call is made only
\* after a listing that holds no job of the requested type.
C7_ReusesFirstMatchingJob ==
    (ResolvesJob /\ ~cli.force_new) =>
        /\ (ListJobsCalls # <<>> /\ ListJobsCalls[1].ok
              /\ HasType(ListJobsCalls[1].listing, cli.report_type_id)) =>
              /\ CreateCalls = <<>>
              /\ \E k \in 1..Len(ListJobsCalls[1].listing) :
                    /\ IsFirstOfType(ListJobsCalls[1].listing, k, cli.report_type_id)
                    /\ used_job_id = ListJobsCalls[1].listing[k].id
                    /\ \A e \in 1..Len(ListCalls) :
                          ListCalls[e].jobId = ListJobsCalls[1].listing[k].id
        /\ CreateCalls # <<>> =>
              /\ IsListJobs(trace[1])
              /\ trace[1].ok
              /\ ~HasType(trace[1].listing, cli.report_type_id)
        /\ pc = "create" => ListJobsCalls # <<>>

\* C7 witness: two jobs of the requested type were listed and the poller
\* has listed the report files of a job
C7_Witness ==
    /\ ResolvesJob
    /\ ~cli.force_new
    /\ Len(jobs) = 2
    /\ jobs[1].reportTypeId = cli.report_type_id
    /\ jobs[2].reportTypeId = cli.report_type_id
    /\ ListCalls # <<>>

\* C8: with --force-new and without --job-id the first remote call of the
\* invocation is the create call (no lookup before it), it is made whatever
\* jobs exist, exactly once, and before any polling.
C8_ForceNewAlwaysCreates ==
    (ResolvesJob /\ cli.force_new) =>
        /\ pc = "reporting" => trace = <<>>
        /\ pc = "create" => trace = <<>>
        /\ pc \notin {"reporting", "create"} =>
              /\ IsCreate(trace[1])
              /\ trace[1].reportTypeId = cli.report_type_id
              /\ Len(CreateCalls) = 1

\* C8 witness: a job of the requested type existed, the create call was
\* made and polling has started
C8_Witness ==
    /\ ResolvesJob
    /\ cli.force_new
    /\ jobs # <<>>
    /\ jobs[1].id # NewJobId
    /\ jobs[1].reportTypeId = cli.report_type_id
    /\ Len(CreateCalls) = 1
    /\ ListCalls # <<>>

\* C9: after a create call rejected with 409 the next remote call is the
\* job listing; the first listed job of the requested type is returned, or,
\* when none is listed, the 409 error leaves the program; no second create
\* call is made.
C9_ConflictRecovery ==
    \A i \in 1..Len(trace) :
        (IsCreate(trace[i]) /\ trace[i].status = HTTP_CONFLICT) =>
            /\ Len(CreateCalls) = 1
            /\ i = Len(trace) => pc = "conflict_scan"
            /\ i < Len(trace) =>
                  /\ IsListJobs(trace[i + 1])
                  /\ trace[i + 1].ok =>
                        IF HasType(trace[i + 1].listing, trace[i].reportTypeId)
                        THEN /\ \E k \in 1..Len(trace[i + 1].listing) :
                                   /\ IsFirstOfType(trace[i + 1].listing, k,
                                                    trace[i].reportTypeId)
                                   /\ job = trace[i + 1].listing[k]
                                   /\ used_job_id = trace[i + 1].listing[k].id
                             /\ error.status # HTTP_CONFLICT
                        ELSE /\ pc = "raised"
                             /\ error = HttpError("jobs.create", HTTP_CONFLICT)
                             /\ Len(trace) = i + 1

\* C9 witness: the create call met a conflict, two jobs of the requested
\* type were listed, and the command went on to poll
C9_Witness ==
    /\ CreateCalls # <<>>
    /\ CreateCalls[1].status = HTTP_CONFLICT
    /\ Len(jobs) = 2
    /\ jobs[1].reportTypeId = cli.report_type_id
    /\ jobs[2].reportTypeId = cli.report_type_id
    /\ used_job_id = jobs[1].id
    /\ ListCalls # <<>>

(***************************************************************************)
(* Termination of a poll session.                                          *)
(***************************************************************************)
\* the ceiling on attempts: range(max_attempts) is empty for max_attempts < 0
Ceiling == IF max_attempts > 0 THEN max_attempts ELSE 0

\* C11: every poll session ends; it never makes more than max_attempts
\* listing calls or more than max_attempts waits, never starts an attempt
\* beyond the ceiling, and it ends by returning unless a remote call failed.
C11_PollSessionTerminates ==
    /\ <>(pc \in {"returned", "raised"})
    /\ [](/\ Len(ListCalls) <= Ceiling
          /\ Len(Sleeps) <= Ceiling
          /\ attempt <= Ceiling
          /\ pc = "raised" => ~trace[Len(trace)].ok)

\* C11 witness: a session that used every attempt and every wait of its
\* budget and returned
C11_Witness ==
    /\ pc = "returned"
    /\ max_attempts >= 2
    /\ Len(ListCalls) = max_attempts
    /\ Len(Sleeps) = max_attempts

(***************************************************************************)
(* Further properties of the reporting command.                            *)
(***************************************************************************)
\* C12: with --job-id (and without --list-only) the given id is what the
\* poller gets, unchanged and unchecked: no job listing and no create call
\* is made, whatever --force-new and --report-type-id are.
C12_ExplicitJobIdVerbatim ==
    (~cli.list_only /\ Truthy(cli.job_id)) =>
        /\ ListJobsCalls = <<>>
        /\ CreateCalls = <<>>
        /\ pc # "reporting" => used_job_id = cli.job_id
        /\ \A e \in 1..Len(ListCalls) : ListCalls[e].jobId = cli.job_id
        /\ pc \notin {"create", "conflict_scan"}

\* C12 witness: an id that no job of the account carries was given together
\* with --force-new, and the poller listed the report files of that id
C12_Witness ==
    /\ ~cli.list_only
    /\ Truthy(cli.job_id)
    /\ cli.force_new
    /\ \A i \in 1..Len(jobs) : jobs[i].id # cli.job_id
    /\ ListCalls # <<>>
    /\ ListCalls[1].jobId = cli.job_id

\* C13: when the poller hands an empty result to the command (all attempts
\* listed nothing in the window, or no attempt was made), no exception has
\* been raised, and the command echoes "No reports were downloaded.",
\* writes no file and exits with status 0.
C13_EmptyResultIsNotAnError ==
    (caller = "reporting" /\ ~cli.list_only) =>
        /\ (pc = "returned" /\ result = <<>>) =>
              /\ error = NoError
              /\ Len(ListCalls) = Ceiling
              /\ \A k \in 1..Len(Listings) : Passing(Listings[k].listing) = <<>>
        /\ (pc \in {"exited", "done"} /\ result = <<>>) =>
              /\ pc = "exited"
              /\ exit_code = 0
              /\ error = NoError
              /\ written = <<>>
              /\ echoed = << "No reports were downloaded." >>
        /\ pc = "exited" => result = <<>>

\* C13 witness: every attempt was used, nothing matched, --output was given
\* and the command has exited
C13_Witness ==
    /\ pc = "exited"
    /\ max_attempts >= 2
    /\ Len(ListCalls) = max_attempts
    /\ Len(Listings[1].listing) > 0
    /\ Truthy(cli.output)

\* C17: with --list-only the command makes only the two listing calls
\* (report types, jobs): no report-file listing, no download, no wait, no
\* create call, no job id resolved, no file written, whatever --job-id and
\* --force-new are.
C17_ListOnlyDoesNotPoll ==
    cli.list_only =>
        /\ ListCalls = <<>>
        /\ Downloads = <<>>
        /\ Sleeps = <<>>
        /\ CreateCalls = <<>>
        /\ used_job_id = None
        /\ job = NoJob
        /\ written = <<>>
        /\ pc \in {"reporting", "done", "raised"}
        /\ \A i \in 1..Len(trace) : trace[i].op \in {"reportTypes.list", "jobs.list"}
        /\ pc = "done" =>
              /\ Len(trace) = 2
              /\ trace[1].op = "reportTypes.list"
              /\ IsListJobs(trace[2])
              /\ exit_code = 0

\* C17 witness: --list-only together with --job-id and --force-new, on an
\* account that holds jobs, has finished
C17_Witness ==
    /\ cli.list_only
    /\ Truthy(cli.job_id)
    /\ cli.force_new
    /\ jobs # <<>>
    /\ pc = "done"

\* C18: max_attempts is the floor of max_poll_time / 60; with a poll time
\* below 60 the poller lists nothing and waits for nothing, the result is
\* empty and the command ends on "No reports were downloaded.", also when
\* files in the window are available.
C18_AttemptsAreFloorOfPollTime ==
    (~cli.list_only /\ pc # "reporting") =>
        /\ max_attempts * 60 <= cli.max_poll_time
        /\ cli.max_poll_time < (max_attempts + 1) * 60
        /\ cli.max_poll_time < 60 =>
              /\ max_attempts <= 0
              /\ attempt = 0
              /\ ListCalls = <<>>
              /\ Downloads = <<>>
              /\ Sleeps = <<>>
              /\ result = <<>>
              /\ pc \notin {"for_report", "done"}

\* C18 witness: --max-poll-time 59, files in the window were available, and
\* the command ended with the empty result
C18_Witness ==
    /\ ~cli.list_only
    /\ cli.max_poll_time = 59
    /\ \E f \in platformFiles : InWindow(f)
    /\ pc = "exited"
    /\ echoed = << "No reports were downloaded." >>

\* the jobs the account held before the invocation, and those it gained
IsOldJob(j) == j.id # NewJobId
IsNewJob(j) == j.id = NewJobId
InitialJobs == SelectSeq(jobs, IsOldJob)
GainedJobs == SelectSeq(jobs, IsNewJob)
IsConflict(e) == e.op = "jobs.create" /\ e.status = HTTP_CONFLICT
IsGoodCreate(e) == e.op = "jobs.create" /\ e.ok

\* C19: an invocation adds at most one job to the account, and exactly as
\* many as create calls succeeded; it adds none with --job-id, with
\* --list-only, when the search without --force-new found a job of the
\* type, or when the create call met a conflict; --force-new with a
\* conflict resolves to the id of a job that existed before.
C19_AtMostOneJobGained ==
    /\ Len(GainedJobs) <= 1
    /\ Len(GainedJobs) = Len(SelectSeq(trace, IsGoodCreate))
    /\ SubSeq(jobs, 1, Len(InitialJobs)) = InitialJobs
    /\ (cli.list_only \/ Truthy(cli.job_id)) => GainedJobs = <<>>
    /\ (~cli.force_new /\ ListJobsCalls # <<>> /\ ListJobsCalls[1].ok
          /\ HasType(ListJobsCalls[1].listing, cli.report_type_id)) => GainedJobs = <<>>
    /\ SelectSeq(trace, IsConflict) # <<>> =>
          /\ GainedJobs = <<>>
          /\ used_job_id # NewJobId
          /\ used_job_id # None =>
                \E k \in 1..Len(InitialJobs) :
                    /\ InitialJobs[k].id = used_job_id
                    /\ InitialJobs[k].reportTypeId = cli.report_type_id

\* C19 witness: --force-new met a conflict, resolved to a job that existed,
\* and polling started with the account's jobs unchanged
C19_Witness ==
    /\ cli.force_new
    /\ SelectSeq(trace, IsConflict) # <<>>
    /\ jobs = InitialJobs
    /\ used_job_id # None
    /\ ListCalls # <<>>

\* C20: a create call that fails with a status other than 409 is the last
\* remote call: its error leaves the program, no job listing follows and
\* no job is returned, also when a job of the requested type exists.
C20_OtherCreateErrorsPropagate ==
    \A i \in 1..Len(trace) :
        (IsCreate(trace[i]) /\ ~trace[i].ok /\ trace[i].status # HTTP_CONFLICT) =>
            /\ i = Len(trace)
            /\ pc = "raised"
            /\ error = HttpError("jobs.create", trace[i].status)
            /\ used_job_id = None
            /\ \A k \in 1..(i - 1) : ~IsCreate(trace[k])

\* C20 witness: the create call failed with a status other than 409 while
\* a job of the requested type existed
C20_Witness ==
    /\ pc = "raised"
    /\ error.call = "jobs.create"
    /\ error.status # HTTP_CONFLICT
    /\ HasType(jobs, cli.report_type_id)

(***************************************************************************)
(* Properties of the analytics command.                                    *)
(***************************************************************************)
IsQuery(e) == e.op = "reports.query"
IsGoodQuery(e) == e.op = "reports.query" /\ e.ok
Queries == SelectSeq(trace, IsQuery)
GoodQueries == SelectSeq(trace, IsGoodQuery)

\* C14: the videos are fetched one by one in input order, whichever of
\* them fail; a failed fetch is logged and gives no output, every other
\* video's result is emitted (echoed, and saved when --output is given),
\* in input order, and no fetch failure ends the command.
C14_FailureIsolation ==
    caller = "analytics" =>
        /\ Len(Queries) <= Len(video_ids)
        /\ \A i \in 1..Len(Queries) : Queries[i].video = video_ids[i]
        /\ pc = "fetch_loop" => Len(Queries) = vid_pos - 1
        /\ pc = "done" => Len(Queries) = Len(video_ids) /\ exit_code = 0
        /\ Queries # <<>> => pc \in {"fetch_loop", "done"} /\ error = NoError
        /\ Len(echoed) = Len(GoodQueries)
        /\ \A i \in 1..Len(GoodQueries) :
              /\ echoed[i].video = GoodQueries[i].video
              /\ echoed[i].saved = Truthy(cli.output)
        /\ Len(written) = IF Truthy(cli.output) THEN Len(GoodQueries) ELSE 0
        /\ \A i \in 1..Len(written) :
              written[i].content = Render(cli.format, GoodQueries[i].video)
        /\ \A i \in 1..Len(trace) :
              (IsQuery(trace[i]) /\ ~trace[i].ok) =>
                  /\ i < Len(trace)
                  /\ trace[i + 1].op = "logger.error"
                  /\ trace[i + 1].video = trace[i].video

\* C14 witness: three or more videos, a fetch failed and a later one
\* succeeded, and the command finished
C14_Witness ==
    /\ pc = "done"
    /\ Len(Queries) >= 3
    /\ \E i \in 1..Len(Queries) : \E j \in (i + 1)..Len(Queries) :
          ~Queries[i].ok /\ Queries[j].ok
    /\ written # <<>>

\* the config document has one of the two valid shapes
IsPlainArray(data) == data.type = "array"
IsObjectWithIds(data) == data.type = "object" /\ "video_ids" \in DOMAIN data.members

\* C15: for a config file that is an array the ids collected from it are
\* the array itself, in order; for an object with a video_ids key they are
\* the inner array; and loading such a file raises nothing.
C15_LoadValidConfig ==
    (caller = "analytics" /\ pc # "analytics" /\ cli.config # NoConfig) =>
        /\ IsPlainArray(cli.config) =>
              /\ pc # "raised"
              /\ video_ids = cli.config.items \o cli.video
        /\ IsObjectWithIds(cli.config) =>
              /\ pc # "raised"
              /\ video_ids = cli.config.members.video_ids \o cli.video

\* C15 witness: an object with a further key, whose video_ids array holds
\* two different ids in descending order, was loaded
C15_Witness ==
    /\ caller = "analytics"
    /\ pc = "fetch_loop"
    /\ cli.config # NoConfig
    /\ IsObjectWithIds(cli.config)
    /\ "title" \in DOMAIN cli.config.members
    /\ cli.config.members.video_ids = << "v2", "v1" >>
    /\ video_ids[1] = "v2"

\* C16: for a config document of any other shape load_video_ids raises
\* ValueError, which ends the command: no video is fetched, nothing is
\* written or echoed, and the exit status is not 0.
C16_LoadInvalidConfig ==
    (caller = "analytics" /\ cli.config # NoConfig
       /\ ~IsPlainArray(cli.config) /\ ~IsObjectWithIds(cli.config)) =>
        /\ pc \in {"analytics", "raised"}
        /\ pc = "raised" => error = ValueError /\ exit_code = 1
        /\ video_ids = <<>>
        /\ trace = <<>>
        /\ written = <<>>
        /\ echoed = <<>>

\* C16 witness: an object without a video_ids key ended the command while
\* --video and --output were given
C16_Witness ==
    /\ caller = "analytics"
    /\ pc = "raised"
    /\ cli.config # NoConfig
    /\ cli.config.type = "object"
    /\ "invalid" \in DOMAIN cli.config.members
    /\ cli.video # <<>>
    /\ Truthy(cli.output)

====
